---- MODULE Spec2Model ----
(***************************************************************************)
(* A model of find_files_same_size.py: the command-line dispatch, the two  *)
(* grouping strategies (by size, by edited-pair filename prefix), the      *)
(* interactive deletion prompt and the size-mode summary.                  *)
(*                                                                         *)
(* Strings are sequences of one-character strings; Ascii gives the code    *)
(* point of every character the model uses, so that string comparison is   *)
(* Python's code-point lexicographic order.                                *)
(***************************************************************************)
EXTENDS Integers, Sequences, FiniteSets, TLC

VARIABLES pc, match_size, match_edited, prompt_delete, df, ran, groups, it,
          group_num, group, key, total_storage_in_duplicates, file_name,
          log, removed, summary, error

vars == <<pc, match_size, match_edited, prompt_delete, df, ran, groups, it,
          group_num, group, key, total_storage_in_duplicates, file_name,
          log, removed, summary, error>>

(* ---------------------------- bounds ----------------------------------- *)

\* Largest number of files the directory walk yields.
MaxFiles == 4

\* The files of the scanned tree, as (folder, file name) pairs: two folders,
\* a name that occurs in both, an original/edited pair, and a name whose
\* first four characters are not capital letters.
Tree == { << <<"a">>, <<"1","2","3","4",".","t","x","t">> >>,
          << <<"b">>, <<"1","2","3","4",".","t","x","t">> >>,
          << <<"a">>, <<"A","A","A","A","1","1","1","1",".","M","P","4">> >>,
          << <<"b">>, <<"A","A","A","A","E","1","1","1","1",".","M","O","V">> >>,
          << <<"a">>, <<"B","B","B","B","2","2","2","2",".","M","P","4">> >>,
          << <<"b">>, <<"B","B","B","B","E","2","2","2","2",".","M","O","V">> >> }

\* File sizes in bytes.
Sizes == { 50, 100 }

\* Lines the user may type at the prompt.
Responses == { <<"a","b","c">>, <<"0">>, <<"1">>, <<"2">>, <<"3">>,
               <<"-","1">> }

(* ---------------------------- strings ---------------------------------- *)

Ascii ==
  (" " :> 32) @@ ("+" :> 43) @@ ("-" :> 45) @@ ("." :> 46) @@ ("/" :> 47) @@
  ("0" :> 48) @@ ("1" :> 49) @@ ("2" :> 50) @@ ("3" :> 51) @@ ("4" :> 52) @@
  ("5" :> 53) @@ ("6" :> 54) @@ ("7" :> 55) @@ ("8" :> 56) @@ ("9" :> 57) @@
  ("A" :> 65) @@ ("B" :> 66) @@ ("E" :> 69) @@ ("M" :> 77) @@ ("O" :> 79) @@
  ("P" :> 80) @@ ("V" :> 86) @@ ("Z" :> 90) @@
  ("a" :> 97) @@ ("b" :> 98) @@ ("c" :> 99) @@ ("t" :> 116) @@ ("x" :> 120)

\* Python str.__lt__: lexicographic by code point, a proper prefix is smaller.
RECURSIVE StrLess(_, _)
StrLess(s, t) ==
  IF t = <<>> THEN FALSE
  ELSE IF s = <<>> THEN TRUE
  ELSE IF Head(s) = Head(t) THEN StrLess(Tail(s), Tail(t))
  ELSE Ascii[Head(s)] < Ascii[Head(t)]

\* s[:n]
Slice(s, n) == SubSeq(s, 1, IF Len(s) < n THEN Len(s) ELSE n)

\* os.path.join(foldername, filename)
PathJoin(foldername, filename) == foldername \o <<"/">> \o filename

IsDigit(c) == Ascii[c] >= 48 /\ Ascii[c] <= 57

RECURSIVE LStrip(_)
LStrip(s) == IF s # <<>> /\ Head(s) = " " THEN LStrip(Tail(s)) ELSE s

RECURSIVE RStrip(_)
RStrip(s) ==
  IF s # <<>> /\ s[Len(s)] = " " THEN RStrip(SubSeq(s, 1, Len(s) - 1)) ELSE s

RECURSIVE DigitsValue(_, _)
DigitsValue(s, acc) ==
  IF s = <<>> THEN acc
  ELSE DigitsValue(Tail(s), acc * 10 + (Ascii[Head(s)] - 48))

\* int(response): <<v>> when the text is an optionally signed run of digits
\* with surrounding blanks, <<>> when int() raises ValueError.
ParseInt(response) ==
  LET s    == RStrip(LStrip(response))
      sgn  == s # <<>> /\ Head(s) \in {"+", "-"}
      body == IF sgn THEN Tail(s) ELSE s
  IN  IF body = <<>> \/ \E i \in 1..Len(body) : ~IsDigit(body[i])
      THEN <<>>
      ELSE IF sgn /\ Head(s) = "-" THEN << 0 - DigitsValue(body, 0) >>
           ELSE << DigitsValue(body, 0) >>

\* A pattern that accepts any four characters: r"^.{4}$"
MatchesPattern_any(prefix) == Len(prefix) = 4

\* re.match(r"^[A-Z]{4}$", prefix) is not None
MatchesPattern(prefix) ==
  /\ Len(prefix) = 4
  /\ \A i \in 1..4 : Ascii[prefix[i]] >= 65 /\ Ascii[prefix[i]] <= 90

(* ---------------------------- the catalog ------------------------------ *)

\* One row of the DataFrame built by create_file_dataframe.
Row(foldername, filename, size) ==
  [ Directory |-> foldername, Filename |-> filename,
    FullPath |-> PathJoin(foldername, filename), Size |-> size ]

Rows == { Row(f[1], f[2], s) : f \in Tree, s \in Sizes }

\* The DataFrames the walk can produce. os.walk yields one folder after the
\* other, in any order, and the names of a folder in any order, so the rows
\* of a folder are contiguous; a file whose size cannot be read is left out.
DataFrames ==
  UNION { { s \in [1..n -> Rows] :
              /\ \A i, j \in 1..n : i # j => s[i].FullPath # s[j].FullPath
              /\ \A i, j, k \in 1..n :
                   (i < j /\ j < k /\ s[i].Directory = s[k].Directory)
                     => s[j].Directory = s[i].Directory }
          : n \in 0..MaxFiles }

(* ---------------------------- grouping --------------------------------- *)

\* row[col]; the "filename_prefix" column is the one assign adds:
\* x["Filename"].str[:4]
Column(r, col) ==
  IF col = "filename_prefix" THEN Slice(r.Filename, 4) ELSE r[col]

\* len(x) for the group of frame whose key is k.
GroupLen(frame, col, k) ==
  Cardinality({ i \in DOMAIN frame : Column(frame[i], col) = k })

\* A filter that keeps every group: lambda x: len(x) > 0
KeepGroup_any(n) == n > 0

\* The predicate handed to filter: lambda x: len(x) > 1
KeepGroup(n) == n > 1

\* df.groupby(col).filter(lambda x: len(x) > 1): the rows of the groups that
\* pass, in their original order.
GroupByFilter(frame, col) ==
  SelectSeq(frame,
            LAMBDA r : KeepGroup(GroupLen(frame, col, Column(r, col))))

\* The keys groupby iterates over: distinct, sorted ascending.
RECURSIVE SortSizes(_)
SortSizes(S) ==
  IF S = {} THEN <<>>
  ELSE LET m == CHOOSE x \in S : \A y \in S \ {x} : x < y
       IN  <<m>> \o SortSizes(S \ {m})

RECURSIVE SortPrefixes(_)
SortPrefixes(S) ==
  IF S = {} THEN <<>>
  ELSE LET m == CHOOSE x \in S : \A y \in S \ {x} : StrLess(x, y)
       IN  <<m>> \o SortPrefixes(S \ {m})

SizeKeys(frame) == SortSizes({ Column(frame[i], "Size") : i \in DOMAIN frame })

PrefixKeys(frame) ==
  SortPrefixes({ Column(frame[i], "filename_prefix") : i \in DOMAIN frame })

\* The sub-frame groupby yields for key k: its rows in frame order.
GetGroup(frame, col, k) == SelectSeq(frame, LAMBDA r : Column(r, col) = k)

RECURSIVE InsertByPath(_, _)
InsertByPath(r, s) ==
  IF s = <<>> THEN <<r>>
  ELSE IF StrLess(r.FullPath, Head(s).FullPath) THEN <<r>> \o s
  ELSE <<Head(s)>> \o InsertByPath(r, Tail(s))

RECURSIVE SortRows(_)
SortRows(s) ==
  IF s = <<>> THEN <<>> ELSE InsertByPath(Head(s), SortRows(Tail(s)))

\* The group left in DataFrame order: the sort_values call dropped.
SortValuesFullPath_unsorted(g) == g

\* group.sort_values("Full Path")
SortValuesFullPath(g) == SortRows(g)

\* The inner loop of match_files_with_same_size: one "+= size" per row.
RECURSIVE AddPerRow(_, _, _)
AddPerRow(total, size, rows) ==
  IF rows = <<>> THEN total ELSE AddPerRow(total + size, size, Tail(rows))

\* The subtraction dropped: every member counted as a duplicate.
SubtractOnce_dropped(total, size) == total

\* total_storage_in_duplicates -= size
SubtractOnce(total, size) == total - size

\* The comparison made on the first 4 characters instead of the first 8.
NamesDiffer_four(g) ==
  Cardinality({ Slice(g[i].Filename, 4) : i \in DOMAIN g }) > 1

\* len(set(group["Filename"].str[:8])) > 1
NamesDiffer(g) ==
  Cardinality({ Slice(g[i].Filename, 8) : i \in DOMAIN g }) > 1

\* The lower bound off by one: response < 0 instead of response < 1.
InRange_zero(response, n) == ~(response < 0 \/ response > n)

\* not (response < 1 or response > len(group))
InRange(response, n) == ~(response < 1 \/ response > n)

\* group.iloc[i]: a negative position counts from the end.
Iloc(g, i) == IF i < 0 THEN g[Len(g) + i + 1] ELSE g[i + 1]

\* The delete called without the try/except around it.
OSErrorCaught_missing == FALSE

\* "except OSError" around send2trash catches the failure of the delete.
OSErrorCaught == TRUE

\* f"{x / 1024 / 1024 / 1024:.1f}": tenths of a GiB, ties to even.
FormatGB(total) ==
  LET unit == 1024 * 1024 * 1024
      q    == (total * 10) \div unit
      r2   == 2 * ((total * 10) % unit)
  IN  IF r2 > unit \/ (r2 = unit /\ q % 2 = 1) THEN q + 1 ELSE q

(* ---------------------------- output ----------------------------------- *)

FullPaths(g) == [ i \in DOMAIN g |-> g[i].FullPath ]

\* What is printed and done for one group: the header with its ordinal and
\* key, the member lines in order, whether input() shows the prompt, the
\* line read, the send2trash calls and what is reported about them.
Entry(n, k, g, p) ==
  [ ordinal |-> n, key |-> k, members |-> FullPaths(g), prompted |-> p,
    response |-> <<>>, calls |-> <<>>, report |-> <<>> ]

UpdateLast(l, e) == [ l EXCEPT ![Len(l)] = e ]

Last(l) == l[Len(l)]

(* ---------------------------- the program ------------------------------ *)

Init ==
  /\ pc = "parse_args"
  /\ match_size = FALSE
  /\ match_edited = FALSE
  /\ prompt_delete = FALSE
  /\ df = <<>>
  /\ ran = <<>>
  /\ groups = <<>>
  /\ it = 0
  /\ group_num = <<>>
  /\ group = <<>>
  /\ key = <<>>
  /\ total_storage_in_duplicates = 0
  /\ file_name = <<>>
  /\ log = <<>>
  /\ removed = {}
  /\ summary = <<>>
  /\ error = ""

\* parser.parse_args(): --size, --edited and --prompt/--no-prompt are
\* independent switches.
ParseArgs ==
  /\ pc = "parse_args"
  /\ \E s \in BOOLEAN, e \in BOOLEAN, p \in BOOLEAN :
       /\ match_size' = s
       /\ match_edited' = e
       /\ prompt_delete' = p
  /\ pc' = "create_df"
  /\ UNCHANGED <<df, ran, groups, it, group_num, group, key,
                 total_storage_in_duplicates, file_name, log, removed,
                 summary, error>>

\* create_file_dataframe(root_directory)
CreateFileDataframe ==
  /\ pc = "create_df"
  /\ \E d \in DataFrames : df' = d
  /\ pc' = "dispatch"
  /\ UNCHANGED <<match_size, match_edited, prompt_delete, ran, groups, it,
                 group_num, group, key, total_storage_in_duplicates,
                 file_name, log, removed, summary, error>>

\* if match_size: ... elif match_edited: ...
Dispatch ==
  /\ pc = "dispatch"
  /\ IF match_size
       THEN pc' = "size_begin" /\ ran' = Append(ran, "size")
       ELSE IF match_edited
              THEN pc' = "edited_begin" /\ ran' = Append(ran, "edited")
              ELSE pc' = "done" /\ ran' = ran
  /\ UNCHANGED <<match_size, match_edited, prompt_delete, df, groups, it,
                 group_num, group, key, total_storage_in_duplicates,
                 file_name, log, removed, summary, error>>

\* match_files_with_same_size, up to the loop. A DataFrame built from an
\* empty list has no "Size" column and groupby raises KeyError.
SizeBegin ==
  /\ pc = "size_begin"
  /\ IF df = <<>>
       THEN /\ pc' = "crashed"
            /\ error' = "KeyError"
            /\ UNCHANGED <<groups, it>>
       ELSE /\ groups' = GroupByFilter(df, "Size")
            /\ it' = 1
            /\ pc' = IF groups' = <<>> THEN "summary" ELSE "size_group"
            /\ error' = error
  /\ total_storage_in_duplicates' = 0
  /\ UNCHANGED <<match_size, match_edited, prompt_delete, df, ran, group_num,
                 group, key, file_name, log, removed, summary>>

\* One pass of the loop of match_files_with_same_size up to the prompt.
SizeGroup ==
  /\ pc = "size_group"
  /\ LET size == SizeKeys(groups)[it]
         g    == SortValuesFullPath(GetGroup(groups, "Size", size))
     IN  /\ group_num' = << it - 1 >>
         /\ key' = <<size>>
         /\ group' = g
         /\ log' = Append(log, Entry(it - 1 + 1, size, g,
                                     prompt_delete /\ NamesDiffer(g)))
         /\ total_storage_in_duplicates' =
              AddPerRow(total_storage_in_duplicates, size, g)
         /\ pc' = IF prompt_delete /\ NamesDiffer(g)
                    THEN "prompt" ELSE "size_after"
  /\ UNCHANGED <<match_size, match_edited, prompt_delete, df, ran, groups, it,
                 file_name, removed, summary, error>>

\* The rest of the pass: the subtraction and the step to the next group.
SizeAfter ==
  /\ pc = "size_after"
  /\ total_storage_in_duplicates' =
       SubtractOnce(total_storage_in_duplicates, key[1])
  /\ it' = it + 1
  /\ pc' = IF it < Len(SizeKeys(groups)) THEN "size_group" ELSE "summary"
  /\ UNCHANGED <<match_size, match_edited, prompt_delete, df, ran, groups,
                 group_num, group, key, file_name, log, removed, summary,
                 error>>

\* The summary line: group_num is unbound when the loop body never ran.
Summary ==
  /\ pc = "summary"
  /\ IF group_num = <<>>
       THEN /\ pc' = "crashed"
            /\ error' = "UnboundLocalError"
            /\ summary' = summary
       ELSE /\ pc' = "done"
            /\ error' = error
            /\ summary' = Append(summary,
                 [ gb_tenths |-> FormatGB(total_storage_in_duplicates),
                   groups |-> group_num[1] ])
  /\ UNCHANGED <<match_size, match_edited, prompt_delete, df, ran, groups, it,
                 group_num, group, key, total_storage_in_duplicates,
                 file_name, log, removed>>

\* match_files_edited_version, up to the loop. A DataFrame built from an
\* empty list has no "Filename" column and assign raises KeyError.
EditedBegin ==
  /\ pc = "edited_begin"
  /\ IF df = <<>>
       THEN /\ pc' = "crashed"
            /\ error' = "KeyError"
            /\ UNCHANGED <<groups, it>>
       ELSE /\ groups' = GroupByFilter(df, "filename_prefix")
            /\ it' = 1
            /\ pc' = IF groups' = <<>> THEN "done" ELSE "edited_group"
            /\ error' = error
  /\ UNCHANGED <<match_size, match_edited, prompt_delete, df, ran, group_num,
                 group, key, total_storage_in_duplicates, file_name, log,
                 removed, summary>>

\* One pass of the loop of match_files_edited_version up to the prompt; a
\* prefix that fails the pattern takes the "continue".
EditedGroup ==
  /\ pc = "edited_group"
  /\ LET prefix == PrefixKeys(groups)[it]
         g      == SortValuesFullPath(GetGroup(groups, "filename_prefix", prefix))
     IN  /\ group_num' = << it - 1 >>
         /\ key' = <<prefix>>
         /\ IF ~MatchesPattern(prefix)
              THEN /\ it' = it + 1
                   /\ pc' = IF it < Len(PrefixKeys(groups))
                              THEN "edited_group" ELSE "done"
                   /\ UNCHANGED <<group, log>>
              ELSE /\ group' = g
                   /\ log' = Append(log, Entry(it - 1 + 1, prefix, g,
                                               prompt_delete))
                   /\ pc' = IF prompt_delete THEN "prompt" ELSE "edited_after"
                   /\ it' = it
  /\ UNCHANGED <<match_size, match_edited, prompt_delete, df, ran, groups,
                 total_storage_in_duplicates, file_name, removed, summary,
                 error>>

\* The rest of the pass: the blank line and the step to the next group.
EditedAfter ==
  /\ pc = "edited_after"
  /\ it' = it + 1
  /\ pc' = IF it < Len(PrefixKeys(groups)) THEN "edited_group" ELSE "done"
  /\ UNCHANGED <<match_size, match_edited, prompt_delete, df, ran, groups,
                 group_num, group, key, total_storage_in_duplicates,
                 file_name, log, removed, summary, error>>

\* Where prompt_to_delete_by_number returns to.
ReturnPc == IF Last(ran) = "size" THEN "size_after" ELSE "edited_after"

\* prompt_to_delete_by_number up to the delete: read a line, validate it,
\* pick the row.
Prompt ==
  /\ pc = "prompt"
  /\ \E response \in Responses :
       LET v == ParseInt(response)
       IN  /\ log' = UpdateLast(log, [ Last(log) EXCEPT
                        !.response = <<response>> ])
           /\ IF v = <<>>
                THEN pc' = ReturnPc /\ file_name' = file_name
                ELSE IF ~InRange(v[1], Len(group))
                       THEN pc' = ReturnPc /\ file_name' = file_name
                       ELSE /\ file_name' = Iloc(group, v[1] - 1).FullPath
                            /\ pc' = "trash"
  /\ UNCHANGED <<match_size, match_edited, prompt_delete, df, ran, groups, it,
                 group_num, group, key, total_storage_in_duplicates, removed,
                 summary, error>>

\* send2trash(file_name) and its two outcomes.
Trash ==
  /\ pc = "trash"
  /\ \E ok \in BOOLEAN :
       /\ log' = UpdateLast(log, [ Last(log) EXCEPT
                    !.calls = Append(@, file_name),
                    !.report = Append(@, IF ok THEN "Deleted"
                                         ELSE "Error deleting") ])
       /\ removed' = IF ok THEN removed \cup {file_name} ELSE removed
       /\ IF ok \/ OSErrorCaught
            THEN pc' = ReturnPc /\ error' = error
            ELSE pc' = "crashed" /\ error' = "OSError"
  /\ UNCHANGED <<match_size, match_edited, prompt_delete, df, ran, groups, it,
                 group_num, group, key, total_storage_in_duplicates,
                 file_name, summary>>

Next ==
  \/ ParseArgs
  \/ CreateFileDataframe
  \/ Dispatch
  \/ SizeBegin
  \/ SizeGroup
  \/ SizeAfter
  \/ Summary
  \/ EditedBegin
  \/ EditedGroup
  \/ EditedAfter
  \/ Prompt
  \/ Trash

Spec == Init /\ [][Next]_vars

TypeOK == pc \in { "parse_args", "create_df", "dispatch", "size_begin",
                   "size_group", "size_after", "summary", "edited_begin",
                   "edited_group", "edited_after", "prompt", "trash",
                   "done", "crashed" }

(* ---------------------------- properties ------------------------------- *)

SizeMode == ran # <<>> /\ Last(ran) = "size"

EditedMode == ran # <<>> /\ Last(ran) = "edited"

Finished == pc \in {"done", "crashed"}

\* The rows of the catalog that have size s.
SizeClass(s) == { i \in DOMAIN df : df[i].Size = s }

\* The sizes that two or more rows of the catalog have.
SharedSizes == { s \in Sizes : Cardinality(SizeClass(s)) >= 2 }

CapitalLetters ==
  { "A", "B", "C", "D", "E", "F", "G", "H", "I", "J", "K", "L", "M", "N",
    "O", "P", "Q", "R", "S", "T", "U", "V", "W", "X", "Y", "Z" }

FourCapitals(k) == Len(k) = 4 /\ \A i \in 1..4 : k[i] \in CapitalLetters

\* The first four characters of a file name, or all of a shorter one.
PrefixOf(name) == [ i \in 1..(IF Len(name) < 4 THEN Len(name) ELSE 4) |-> name[i] ]

PrefixClass(k) == { i \in DOMAIN df : PrefixOf(df[i].Filename) = k }

\* The prefixes that two or more rows share and that are four capitals.
PairPrefixes ==
  { k \in { PrefixOf(df[i].Filename) : i \in DOMAIN df } :
      Cardinality(PrefixClass(k)) >= 2 /\ FourCapitals(k) }

\* The full paths of the rows of the catalog that belong to the group of e.
ClassPaths(e) ==
  IF SizeMode THEN { df[i].FullPath : i \in SizeClass(e.key) }
  ELSE { df[i].FullPath : i \in PrefixClass(e.key) }

\* The file name of the row whose full path is p.
NameOf(p) == df[CHOOSE i \in DOMAIN df : df[i].FullPath = p].Filename

\* Two names differ somewhere in their first 8 characters.
First8Differ(a, b) ==
  \E k \in 1..8 :
    \/ (k <= Len(a)) # (k <= Len(b))
    \/ k <= Len(a) /\ k <= Len(b) /\ a[k] # b[k]

\* The number of paths of S that sort before p.
Rank(p, S) == Cardinality({ q \in S : StrLess(q, p) })

\* The line read for e is no integer, or an integer outside 1..n.
Declined(e) ==
  /\ e.response # <<>>
  /\ LET v == ParseInt(e.response[1])
     IN  v = <<>> \/ v[1] < 1 \/ v[1] > Len(e.members)

\* The line read for e is an integer of 1..n.
Chose(e, k) ==
  /\ e.response # <<>>
  /\ ParseInt(e.response[1]) = <<k>>
  /\ 1 <= k /\ k <= Len(e.members)

\* The processing of the i-th printed group is past its prompt and delete.
Settled(i) == i < Len(log) \/ pc \notin {"prompt", "trash"}

RECURSIVE SumWasted(_)
SumWasted(S) ==
  IF S = {} THEN 0
  ELSE LET s == CHOOSE x \in S : TRUE
       IN  s * (Cardinality(SizeClass(s)) - 1) + SumWasted(S \ {s})

\* C1: when the line read at the prompt of a group does not parse as an
\* integer, or parses to a value outside 1..n, send2trash is not called for
\* that group, no call is pending, and no member of the group is removed.
C1_DeclineNeverDeletes ==
  \A i \in DOMAIN log :
    Declined(log[i]) =>
      /\ log[i].calls = <<>>
      /\ ~(i = Len(log) /\ pc = "trash")
      /\ \A j \in DOMAIN log[i].members : log[i].members[j] \notin removed

C1_Witness ==
  /\ pc = "done"
  /\ \E i \in DOMAIN log :
       Declined(log[i]) /\ ParseInt(log[i].response[1]) = <<>>
  /\ \E i \in DOMAIN log :
       Declined(log[i]) /\ ParseInt(log[i].response[1]) # <<>>

\* C2: when the line read at the prompt of a group parses to k in 1..n,
\* send2trash is called exactly once for the group, on the member printed
\* with index k, which is the member of the group with exactly k-1 members
\* before it in full-path order, whatever the order of the rows.
C2_ValidChoiceDeletesKth ==
  \A i \in DOMAIN log :
    /\ Len(log[i].calls) <= 1
    /\ \A k \in 1..Len(log[i].members) :
         (Chose(log[i], k) /\ Settled(i)) =>
           /\ Len(log[i].calls) = 1
           /\ log[i].calls[1] = log[i].members[k]
           /\ log[i].calls[1] \in ClassPaths(log[i])
           /\ Rank(log[i].calls[1], ClassPaths(log[i])) = k - 1

\* A choice made in a group whose rows were not in path order in the catalog.
C2_Witness ==
  /\ pc = "done"
  /\ \E i \in DOMAIN log :
       /\ Chose(log[i], 2)
       /\ \E a, b \in DOMAIN df :
            /\ a < b
            /\ df[a].FullPath \in ClassPaths(log[i])
            /\ df[b].FullPath \in ClassPaths(log[i])
            /\ StrLess(df[b].FullPath, df[a].FullPath)

\* C3: in size mode every printed group has two or more members, its
\* members are exactly the rows of one size, the groups come in ascending
\* size order, and once the loop is over every size that two or more rows
\* share has exactly one group.
C3_SizeGroupsAreSizeClasses ==
  SizeMode =>
    /\ \A i \in DOMAIN log :
         /\ Len(log[i].members) >= 2
         /\ Len(log[i].members) = Cardinality(SizeClass(log[i].key))
         /\ { log[i].members[j] : j \in DOMAIN log[i].members }
              = { df[r].FullPath : r \in SizeClass(log[i].key) }
    /\ \A i, j \in DOMAIN log : i < j => log[i].key < log[j].key
    /\ (pc \in {"summary", "done"}) =>
         { log[i].key : i \in DOMAIN log } = SharedSizes

\* A shared size next to a size only one file has.
C3_Witness ==
  /\ SizeMode /\ pc = "done"
  /\ log # <<>>
  /\ \E s \in Sizes : Cardinality(SizeClass(s)) = 1

\* C4: in edited-pair mode every printed group, and so every group a
\* prompt is shown for, has a prefix of exactly four capital letters A-Z
\* and two or more members.
C4_EditedGroupsMatchPattern ==
  EditedMode =>
    \A i \in DOMAIN log :
      /\ FourCapitals(log[i].key)
      /\ Len(log[i].members) >= 2

\* A printed group next to two files that share a prefix of digits.
C4_Witness ==
  /\ EditedMode /\ pc = "done"
  /\ log # <<>>
  /\ \E i, j \in DOMAIN df :
       /\ i # j
       /\ PrefixOf(df[i].Filename) = PrefixOf(df[j].Filename)
       /\ ~FourCapitals(PrefixOf(df[i].Filename))

\* C5: when the summary line is reached, and after it, the total is the sum
\* of size * (count - 1) over the sizes that two or more rows share,
\* whatever was typed and deleted.
C5_TotalIsWastedBytes ==
  (SizeMode /\ pc \in {"summary", "done"}) =>
    total_storage_in_duplicates = SumWasted(SharedSizes)

C5_Witness ==
  /\ SizeMode /\ pc = "summary"
  /\ removed # {}
  /\ total_storage_in_duplicates > 0

\* C6: a size-mode run ends with the summary printed once, and the group
\* count in it is the number of kept groups.
C6_SummaryCountsGroups ==
  (SizeMode /\ Finished) =>
    /\ Len(summary) = 1
    /\ summary[1].groups = Cardinality(SharedSizes)

AllPresented ==
  /\ SizeMode =>
       /\ { log[i].key : i \in DOMAIN log } = SharedSizes
       /\ \A i, j \in DOMAIN log : i < j => log[i].key < log[j].key
  /\ EditedMode =>
       /\ { log[i].key : i \in DOMAIN log } = PairPrefixes
       /\ \A i, j \in DOMAIN log : i < j => StrLess(log[i].key, log[j].key)

\* The catalog has a group that is kept under the strategy that runs.
HasKeptGroup ==
  (SizeMode /\ SharedSizes # {}) \/ (EditedMode /\ PairPrefixes # {})

\* C8: a run with kept groups never stops in the loop: it does not crash,
\* the prompt and the delete each have a next step, and at the summary line and
\* at the end every kept group has been printed in key order; the step
\* after send2trash, failed or not, reports the outcome and goes on with
\* the rest of the pass, and the step after a line is read goes on to the
\* delete or to the rest of the pass.
C8_AllGroupsAttempted ==
  /\ [](HasKeptGroup => pc # "crashed")
  /\ []((pc \in {"summary", "done"} /\ ran # <<>>) => AllPresented)
  /\ [](pc = "prompt" => ENABLED Prompt)
  /\ [](pc = "trash" => ENABLED Trash)
  /\ [][ /\ pc = "trash" =>
              /\ pc' \in {"size_after", "edited_after"}
              /\ Len(Last(log').report) = Len(Last(log).report) + 1
         /\ pc = "prompt" =>
              pc' \in {"trash", "size_after", "edited_after"} ]_vars

\* The summary line reached after a failed delete in the first of two groups.
C8_Witness ==
  /\ pc = "summary"
  /\ Len(log) = 2
  /\ log[1].report = <<"Error deleting">>

\* C9: the ordinal printed in the header of the i-th printed group is i.
C9_OrdinalsWithoutGaps ==
  \A i \in DOMAIN log : log[i].ordinal = i

\* C10: a run that has ended has run exactly one grouping strategy.
C10_ExactlyOneStrategy ==
  Finished => Len(ran) = 1
====
